---- MODULE Spec2Model ----
(***************************************************************************)
(* Agent orchestration state machine of green-hill-app (app/ghc_twin.py,   *)
(* app/agents.py, app/models.py, app/document_store.py).                   *)
(*                                                                         *)
(* One run of the compiled graph is modelled: START -> intake ->           *)
(* digital_twin -> router -> agent nodes ... -> finalize -> END.  The      *)
(* variables are the fields of TwinState that the nodes read or write, the *)
(* document store handle, the position in the graph (pc), the summary      *)
(* lines of the composite answer (final_parts), what the run leaves in the *)
(* audit files and the index (side_effects), and history variables (trace, *)
(* fa_writes, classified, routed) that record which nodes ran, how often   *)
(* final_answer was assigned and what the classifier and the router        *)
(* returned when they are exercised on their own.                          *)
(*                                                                         *)
(* Python strings returned by DocumentStore.query are modelled as the      *)
(* sequence of document chunks that are joined by "\n\n"; the empty string *)
(* is the empty sequence.  Document page contents are taken to be          *)
(* non-empty and free of "\n\n".  The text returned by a successful        *)
(* generation call is taken to be non-empty.                               *)
(***************************************************************************)
EXTENDS Integers, Sequences, FiniteSets, TLC

\* ------------------------------------------------------------------ bounds
MaxTargets == 2   \* longest caller-supplied target_agents list
MaxSteps == 11    \* longest run (number of node invocations) that is explored
MaxDocs == 2      \* documents a successful, non-empty index query returns
MaxCalls == 2     \* classify_request calls in ClassifySpec

\* --------------------------------------------------------------- constants
None == "None"
END == "__end__"
NoneDict == [none |-> TRUE]

MissingQuestionMsg == "Error: Missing question"
NoAgentsMsg_SameAsValidation == MissingQuestionMsg

NoAgentsMsg == "No suitable agents selected"

\* AgentName members referenced by app/ghc_twin.py and app/agents.py
AgentName ==
  {"STRATEGY", "FINANCE", "OPERATIONS", "MARKET", "MARKET_INTEL", "RISK",
   "COMPLIANCE", "INNOVATION", "MEDIA", "QMS", "GOVERNANCE", "AEMPS",
   "GREEN_HILL"}

\* per-agent output fields of TwinState
OutputFields ==
  {"strategy_output", "operations_output", "finance_output", "market_output",
   "risk_output", "compliance_output", "innovation_output", "media_output",
   "qms_output", "governance_output", "aemps_output", "green_hill_response"}

AgentNodes ==
  {"strategy", "finance", "operations", "market", "risk", "compliance",
   "innovation", "media", "qms", "governance", "aemps", "green_hill"}

\* ------------------------------------------------------------------ inputs
Questions == {None, "", "q"}
SourceTypes ==
  {"master", "MASTER", "investor", "shareholder", "supplier", "public",
   "ocs_feed", "web_source", "media_upload", ""}
\* a metadata dict by the four keys the nodes read (None: key absent)
Meta(dom, sub, dec, capa) ==
  [domain |-> dom, subdomain |-> sub, decision |-> dec, capa_issue |-> capa]
NoHints == Meta(None, None, None, None)
Metadatas ==
  { NoHints,
    Meta("media", None, None, None),
    Meta("governance", None, None, None),
    Meta("compliance", "qms playbook", None, None),
    Meta("compliance", "aemps assessment application", None, None),
    Meta("compliance", "other", None, None),
    Meta(None, None, "go ahead", None),
    Meta(None, None, None, "deviation"),
    Meta(None, None, "go ahead", "deviation") }
PayloadRefs == {None, "ref"}
DirectAgents == {"STRATEGY", "MARKET", "MARKET_INTEL", "GREEN_HILL"}
TargetAgentInputs == {None, "STRATEGY", "MARKET_INTEL"}

\* The collaborators as one run sees them: the vector store handle
\* (DocumentStore.vectordb), whether similarity_search raises, how many
\* documents it returns, and whether the chat model can be called.
\* Each outcome of the index query (not available, raising, no document,
\* MaxDocs documents) and each outcome of the generation call occurs, and
\* failure and success of the two are combined in all four ways.
Environments ==
  { [vectordb |-> None, raises |-> FALSE, ndocs |-> 0, llm |-> TRUE],
    [vectordb |-> "chroma", raises |-> TRUE, ndocs |-> 0, llm |-> FALSE],
    [vectordb |-> "chroma", raises |-> FALSE, ndocs |-> 0, llm |-> FALSE],
    [vectordb |-> "chroma", raises |-> FALSE, ndocs |-> MaxDocs, llm |-> TRUE] }

\* inputs of the classifier when it is exercised on its own
ClassifySourceTypes ==
  SourceTypes \cup {None, "Master", "INVESTOR", "provider", "Public", "unknown"}
ClassifyDomains ==
  {None, "", "media", "Media", "governance", "sha_canonical", "compliance",
   "COMPLIANCE", "strategic_plan", "other"}
ClassifySubdomains ==
  {None, "qms playbook", "QMS Playbook", "sop index",
   "aemps assessment application", "regulatory", "other"}

RECURSIVE SeqsUpTo(_, _)
SeqsUpTo(S, n) ==
  IF n = 0 THEN {<<>>}
  ELSE LET shorter == SeqsUpTo(S, n - 1)
       IN shorter \cup {Append(s, x) : s \in shorter, x \in S}

VARIABLES
  question, source_type, metadata, payload_ref,
  target_agent, target_agents,
  context, history, outputs,
  current_agent, next_agent, finalize, final_answer, errors,
  env,
  request,
  final_parts, side_effects,
  pc, trace, fa_writes,
  classified, routed,
  at, calls,
  orchestration_mode  \* field of the legacy TwinState (models.py at the root)

vars ==
  <<question, source_type, metadata, payload_ref, target_agent, target_agents,
    context, history, outputs, current_agent, next_agent, finalize,
    final_answer, errors, env, request, final_parts, side_effects, pc, trace,
    fa_writes, classified, routed, at, calls, orchestration_mode>>

\* the TwinState record that is threaded through the nodes
State ==
  [question |-> question, source_type |-> source_type, metadata |-> metadata,
   payload_ref |-> payload_ref, target_agent |-> target_agent,
   target_agents |-> target_agents, context |-> context, history |-> history,
   outputs |-> outputs, current_agent |-> current_agent,
   next_agent |-> next_agent, finalize |-> finalize,
   final_answer |-> final_answer, errors |-> errors]

\* --------------------------------------------------------- string helpers
Lower_Identity(s) == s

\* str.lower() on the strings that occur as source_type, domain, subdomain
Lower(s) ==
  CASE s = "MASTER" -> "master"
    [] s = "Master" -> "master"
    [] s = "Public" -> "public"
    [] s = "INVESTOR" -> "investor"
    [] s = "Media" -> "media"
    [] s = "COMPLIANCE" -> "compliance"
    [] s = "QMS Playbook" -> "qms playbook"
    [] OTHER -> s

\* `x or default` for an optional string
OrElse(x, default) == IF x = None \/ x = "" THEN default ELSE x

\* text.split("\n\n") on a string given as its chunk sequence
Split(text) == IF text = <<>> THEN <<"">> ELSE text

\* first index of x in seq, 0 when absent (list.index raising ValueError)
IndexOf(seq, x) ==
  IF \E i \in 1..Len(seq) : seq[i] = x
  THEN CHOOSE i \in 1..Len(seq) : seq[i] = x /\ \A j \in 1..(i - 1) : seq[j] # x
  ELSE 0

Contains(seq, x) == \E i \in 1..Len(seq) : seq[i] = x

\* ------------------------------------------------------------- classifier
HintOrRole_ComplianceCatchAll(md, source) ==
  IF Lower(OrElse(md.domain, "")) = "compliance" THEN <<"QMS">>
  ELSE IF Lower(OrElse(md.domain, "")) = "media" THEN <<"MEDIA">>
  ELSE <<"MARKET", "STRATEGY">>

\* the decision list of classify_request on the two values it reads
HintOrRole(md, source) ==
  LET dom == Lower(OrElse(md.domain, ""))
      sub == Lower(OrElse(md.subdomain, ""))
      stype == Lower(OrElse(source, "public"))
  IN CASE dom = "media" -> <<"MEDIA">>
       [] dom \in {"governance", "sha_canonical"} -> <<"GOVERNANCE">>
       [] dom = "compliance" /\ sub \in {"qms playbook", "sop index"} -> <<"QMS">>
       [] dom = "compliance" /\ sub = "aemps assessment application" -> <<"AEMPS">>
       [] dom = "strategic_plan" /\ sub = "regulatory" -> <<"AEMPS">>
       [] OTHER ->
          CASE stype = "master" ->
                 <<"STRATEGY", "FINANCE", "OPERATIONS", "MARKET", "RISK",
                   "COMPLIANCE", "INNOVATION", "GREEN_HILL">>
            [] stype \in {"shareholder", "investor"} ->
                 <<"STRATEGY", "FINANCE", "MARKET", "RISK", "GREEN_HILL">>
            [] stype \in {"supplier", "provider"} -> <<"OPERATIONS", "COMPLIANCE">>
            [] stype = "public" -> <<"MARKET", "STRATEGY">>
            [] stype = "ocs_feed" -> <<"OPERATIONS", "COMPLIANCE">>
            [] stype = "web_source" -> <<"MARKET", "RISK">>
            [] OTHER -> <<>>

classify_request_NeedsQuestion(st) ==
  IF st.question \in {None, ""} THEN <<>>
  ELSE HintOrRole(st.metadata, st.source_type)

classify_request(st) == HintOrRole(st.metadata, st.source_type)

\* ----------------------------------------------------------------- cursor
_normalize_Identity(agent) == agent

\* _normalize: MARKET_INTEL is an alias of MARKET
_normalize(agent) == IF agent = "MARKET_INTEL" THEN "MARKET" ELSE agent

_next_from_targets_Skips(targets, current) ==
  IF targets = <<>> THEN None
  ELSE LET normalized_targets == [i \in 1..Len(targets) |-> _normalize(targets[i])]
           idx == IndexOf(normalized_targets, _normalize(current))
       IN IF idx = 0 THEN None
          ELSE IF idx + 2 <= Len(targets) THEN targets[idx + 2] ELSE None

_next_from_targets(targets, current) ==
  IF targets = <<>> THEN None
  ELSE LET normalized_targets == [i \in 1..Len(targets) |-> _normalize(targets[i])]
           idx == IndexOf(normalized_targets, _normalize(current))
       IN IF idx = 0 THEN None
          ELSE IF idx + 1 <= Len(targets) THEN targets[idx + 1] ELSE None

targets_after_lookup_InPlace(targets) ==
  [i \in 1..Len(targets) |-> _normalize(targets[i])]

\* state.target_agents after a call of _next_from_targets: the normalized
\* list is a new list, the state's own list is not assigned
targets_after_lookup(targets) == targets

\* ----------------------------------------------------------------- router
NodeOf_NoMedia(agent) ==
  CASE agent = "STRATEGY" -> "strategy"
    [] agent = "FINANCE" -> "finance"
    [] agent = "OPERATIONS" -> "operations"
    [] agent = "MARKET" -> "market"
    [] agent = "MARKET_INTEL" -> "market"
    [] agent = "RISK" -> "risk"
    [] agent = "COMPLIANCE" -> "compliance"
    [] agent = "INNOVATION" -> "innovation"
    [] agent = "QMS" -> "qms"
    [] agent = "GOVERNANCE" -> "governance"
    [] agent = "AEMPS" -> "aemps"
    [] agent = "GREEN_HILL" -> "green_hill"
    [] OTHER -> END

\* the agent-identifier -> node-name table of router (m.get(agent, END))
NodeOf(agent) ==
  CASE agent = "STRATEGY" -> "strategy"
    [] agent = "FINANCE" -> "finance"
    [] agent = "OPERATIONS" -> "operations"
    [] agent = "MARKET" -> "market"
    [] agent = "MARKET_INTEL" -> "market"
    [] agent = "RISK" -> "risk"
    [] agent = "COMPLIANCE" -> "compliance"
    [] agent = "INNOVATION" -> "innovation"
    [] agent = "MEDIA" -> "media"
    [] agent = "QMS" -> "qms"
    [] agent = "GOVERNANCE" -> "governance"
    [] agent = "AEMPS" -> "aemps"
    [] agent = "GREEN_HILL" -> "green_hill"
    [] OTHER -> END

router_IgnoresFinalize(fin, nxt) ==
  IF nxt = None THEN "finalize" ELSE NodeOf(nxt)

router_UnlistedToFinalize(fin, nxt) ==
  IF fin THEN END
  ELSE IF nxt = None \/ NodeOf(nxt) = END THEN "finalize"
  ELSE NodeOf(nxt)

router(fin, nxt) ==
  IF fin THEN END
  ELSE IF nxt = None THEN "finalize"
  ELSE NodeOf(nxt)

\* --------------------------------------------------------- collaborators
Escapes_Uncaught(raised) == raised

\* whether an exception raised inside a `try: ... except Exception:` block
\* with a fallback value leaves the block: the handler takes every one
Escapes(raised) == FALSE

\* an exception leaves one of the two calls an agent node makes: the index
\* query (similarity_search inside DocumentStore.query) or the generation
\* call (llm.invoke inside enhance_with_llm)
AgentRaises(e) ==
  \/ Escapes(e.vectordb # None /\ e.raises)
  \/ Escapes(~e.llm)

\* DocumentStore.query: the returned string as its "\n\n"-separated chunks
query(e) ==
  IF e.vectordb = None THEN <<"No vector store available">>
  ELSE IF e.raises THEN <<"Vector store query failed">>
  ELSE [i \in 1..e.ndocs |-> "doc"]

is_available(e) == e.vectordb # None

enhance_with_llm(e) == IF e.llm THEN "llm analysis" ELSE "Baseline analysis (LLM unavailable)"

\* ----------------------------------------------------------- side effects
\* What a run leaves outside the state: lines appended to the three audit
\* files, whether the audit block ended in its handler and at which write,
\* the setting of ARCHIVE_AGENT_OUTPUTS while a node ran, the calls of
\* add_agent_outputs, the output fields whose text reached the index, and
\* whether such a call failed; and the store.query calls of digital_twin.
NoSideEffects ==
  [decision_register |-> 0, weekly_learning |-> 0, capa_log |-> 0,
   audit_error |-> FALSE, audit_failed_at |-> "none", archive_setting |-> "unread", archive_calls |-> 0,
   archived |-> {}, archive_error |-> FALSE, twin_queries |-> 0]

\* truthiness of an optional string
Truthy(x) == x # None /\ x # ""

\* the write of the audit block that raises, if any
AuditFailures(md) ==
  {"none"}
    \cup (IF Truthy(md.decision) THEN {"decision_register", "weekly_learning"}
          ELSE {})
    \cup (IF Truthy(md.capa_issue) THEN {"capa_log"} ELSE {})

\* the audit block of finalize_node: one try block in which the decision
\* register, the weekly learning note and the CAPA log are written in this
\* order; the first write that raises ends the block in `except: pass`
AfterAudit(se, md, fail) ==
  LET decision == Truthy(md.decision)
      capa == Truthy(md.capa_issue)
      register_ok == decision /\ fail # "decision_register"
      weekly_ok == register_ok /\ fail # "weekly_learning"
      capa_reached == capa /\ (decision => weekly_ok)
  IN [se EXCEPT !.decision_register = @ + (IF register_ok THEN 1 ELSE 0),
                !.weekly_learning = @ + (IF weekly_ok THEN 1 ELSE 0),
                !.capa_log = @ + (IF capa_reached /\ fail # "capa_log" THEN 1 ELSE 0),
                !.audit_error = (fail # "none"),
                !.audit_failed_at = fail]

ArchiveReached_InsideAuditTry(audit_error) == ~audit_error

\* the archive block follows the audit try/except and is outside it: it is
\* reached whether or not the audit handler ran
ArchiveReached(audit_error) == TRUE

\* the output fields add_agent_outputs packs
ArchivedFields ==
  {"strategy_output", "finance_output", "operations_output", "market_output",
   "risk_output", "compliance_output", "innovation_output",
   "green_hill_response"}
ArchiveItems(outs) == {f \in ArchivedFields : outs[f] # NoneDict}

\* what a call of add_agent_outputs does: it stores the items, or the
\* store is there and add_texts fails, or an exception ends the call
ArchiveOutcomes == {"ok", "add_fails", "raises"}

AfterArchive_Retries(se, outs, enabled, outcome) ==
  IF ~enabled THEN [se EXCEPT !.archive_setting = "off"]
  ELSE [se EXCEPT !.archive_setting = "on",
                  !.archive_calls = IF outcome = "ok" THEN @ + 1 ELSE @ + 2,
                  !.archived = IF outcome = "ok" THEN @ \cup ArchiveItems(outs)
                               ELSE @,
                  !.archive_error = (outcome # "ok" /\ ArchiveItems(outs) # {})]

\* `if os.getenv("ARCHIVE_AGENT_OUTPUTS", "1") ...: try: add_agent_outputs`
AfterArchive(se, outs, enabled, outcome) ==
  IF ~enabled THEN [se EXCEPT !.archive_setting = "off"]
  ELSE [se EXCEPT !.archive_setting = "on",
                  !.archive_calls = @ + 1,
                  !.archived = IF outcome = "ok" THEN @ \cup ArchiveItems(outs)
                               ELSE @,
                  !.archive_error = (outcome # "ok" /\ ArchiveItems(outs) # {})]

\* _ensure_store creates the vector store when there are items to add, and
\* texts that were added are there for later queries (which return at most
\* MaxDocs documents)
StoreAfterArchive(e, outs, enabled, outcome) ==
  LET items == Cardinality(ArchiveItems(outs))
  IN IF enabled /\ items > 0 /\ outcome = "ok"
     THEN [e EXCEPT !.vectordb = "chroma",
                    !.ndocs = IF @ + items < MaxDocs THEN @ + items ELSE MaxDocs]
     ELSE IF enabled /\ items > 0 /\ outcome = "add_fails"
     THEN [e EXCEPT !.vectordb = "chroma"]
     ELSE e

\* ------------------------------------------------------------------- Init
\* a freshly constructed TwinState: every field the caller does not supply
\* has its default
Fresh ==
  /\ context = [retrieved_docs |-> <<>>, has_docs |-> FALSE]
  /\ history = <<>>
  /\ outputs = [f \in OutputFields |-> NoneDict]
  /\ current_agent = None
  /\ next_agent = None
  /\ finalize = FALSE
  /\ final_answer = None
  /\ errors = <<>>
  /\ request = State
  /\ trace = <<>>
  /\ fa_writes = 0
  /\ classified = <<>>
  /\ routed = <<>>
  /\ final_parts = <<>>
  /\ side_effects = NoSideEffects
  /\ at = 0
  /\ calls = <<>>
  /\ orchestration_mode = "ceo"

Init ==
  /\ question \in Questions
  /\ source_type \in SourceTypes
  /\ metadata \in Metadatas
  /\ payload_ref \in PayloadRefs
  /\ target_agent \in TargetAgentInputs
  /\ target_agents \in SeqsUpTo(DirectAgents, MaxTargets)
  /\ env \in Environments
  /\ pc = "intake"
  /\ Fresh

\* ------------------------------------------------------------------ nodes
MissingQuestion_NoneOnly(q) == q = None

MissingQuestion_Never(q) == FALSE

\* `not state.question`
MissingQuestion(q) == q = None \/ q = ""

\* START -> intake
intake_node ==
  /\ pc = "intake"
  /\ history' = Append(history, [role |-> "System", content |-> "Intake processed"])
  /\ LET stype == Lower(OrElse(source_type, "public"))
         with_innovation ==
           IF Contains(target_agents, "INNOVATION") THEN target_agents
           ELSE Append(target_agents, "INNOVATION")
         with_operations ==
           IF Contains(with_innovation, "OPERATIONS") THEN with_innovation
           ELSE Append(with_innovation, "OPERATIONS")
     IN target_agents' =
          IF payload_ref # None /\ payload_ref # "" /\ MissingQuestion(question)
            THEN with_operations
          ELSE IF stype = "web_source"
            THEN (IF target_agents # <<>> THEN target_agents ELSE <<"MARKET", "RISK">>)
          ELSE IF stype = "ocs_feed"
            THEN (IF target_agents # <<>> THEN target_agents
                  ELSE <<"OPERATIONS", "COMPLIANCE">>)
          ELSE target_agents
  /\ pc' = "digital_twin"
  /\ trace' = Append(trace, "intake")
  /\ UNCHANGED <<orchestration_mode, question, source_type, metadata, payload_ref, target_agent,
                 context, outputs, current_agent, next_agent, finalize,
                 final_answer, errors, env, request, fa_writes, classified,
                 routed, final_parts, side_effects,
                 at, calls>>

\* the direct-mode list: target_agent is appended when it is not contained
DirectTargets ==
  IF target_agent # None /\ ~Contains(target_agents, target_agent)
  THEN Append(target_agents, target_agent)
  ELSE target_agents

SelectTargets_NeedsIndex ==
  IF ~is_available(env) THEN <<>>
  ELSE IF DirectTargets # <<>> THEN DirectTargets
  ELSE classify_request(State)

\* `state.target_agents or classify_request(state)`
SelectTargets ==
  IF DirectTargets # <<>> THEN DirectTargets
  ELSE classify_request(State)

\* context["retrieved_docs"] as attached by digital_twin
RetrievedDocs ==
  IF is_available(env)
  THEN (IF query(env) # <<>> THEN Split(query(env)) ELSE <<>>)
  ELSE <<"No vector store available">>

\* intake -> digital_twin -> router
digital_twin ==
  /\ pc = "digital_twin"
  /\ trace' = Append(trace, "digital_twin")
  /\ IF MissingQuestion(question)
     THEN /\ finalize' = TRUE
          /\ final_answer' = MissingQuestionMsg
          /\ fa_writes' = fa_writes + 1
          /\ UNCHANGED <<context, target_agents, next_agent, side_effects>>
     ELSE /\ context' = [retrieved_docs |-> RetrievedDocs, has_docs |-> TRUE]
          /\ side_effects' =
               [side_effects EXCEPT
                  !.twin_queries = IF is_available(env) THEN @ + 1 ELSE @]
          /\ target_agents' = SelectTargets
          /\ IF SelectTargets = <<>>
             THEN /\ finalize' = TRUE
                  /\ final_answer' = NoAgentsMsg
                  /\ fa_writes' = fa_writes + 1
                  /\ UNCHANGED next_agent
             ELSE /\ next_agent' = SelectTargets[1]
                  /\ UNCHANGED <<finalize, final_answer, fa_writes>>
  /\ pc' = router(finalize', next_agent')
  /\ UNCHANGED <<orchestration_mode, question, source_type, metadata, payload_ref, target_agent,
                 history, outputs, current_agent, errors, env, request, classified,
                 routed, final_parts,
                 at, calls>>

record_note_Silent(hist, agent, note) == hist
record_note_Replaces(hist, agent, note) ==
  <<[role |-> agent, content |-> note]>>

\* record_output's history append: one Message(role, note)
record_note(hist, agent, note) == Append(hist, [role |-> agent, content |-> note])

set_output_ClearsOthers(outs, output_key, output) ==
  [f \in DOMAIN outs |-> IF f = output_key THEN output ELSE NoneDict]

\* record_output's setattr(state, output_key, output)
set_output(outs, output_key, output) == [outs EXCEPT ![output_key] = output]

\* the shared body of the eleven analytical agent nodes, with record_output
AgentUnit(node, agent, output_key, note) ==
  /\ pc = node
  /\ Len(trace) < MaxSteps
  /\ trace' = Append(trace, node)
  /\ IF AgentRaises(env)
     THEN /\ pc' = "raised"
          /\ UNCHANGED <<history, outputs, current_agent, next_agent>>
     ELSE /\ LET ctx == query(env)
                 output == [role_fields |-> node,
                            analysis |-> enhance_with_llm(env),
                            context_used |-> Len(Split(ctx))]
             IN /\ history' = record_note(history, agent, note)
                /\ outputs' = set_output(outputs, output_key, output)
          /\ current_agent' = agent
          /\ next_agent' = _next_from_targets(target_agents, agent)
          /\ pc' = router(finalize, next_agent')
  /\ target_agents' =
       IF AgentRaises(env) THEN target_agents
       ELSE targets_after_lookup(target_agents)
  /\ UNCHANGED <<orchestration_mode, question, source_type, metadata, payload_ref, target_agent,
                 context, finalize, final_answer, errors, env, request,
                 fa_writes, classified, routed, final_parts, side_effects,
                 at, calls>>

strategy_node ==
  AgentUnit("strategy", "STRATEGY", "strategy_output", "Strategic analysis completed")
operations_node ==
  AgentUnit("operations", "OPERATIONS", "operations_output", "Operations planning completed")
finance_node ==
  AgentUnit("finance", "FINANCE", "finance_output", "Financial modeling completed")
market_intel_node ==
  AgentUnit("market", "MARKET", "market_output", "Market intelligence gathered")
risk_node ==
  AgentUnit("risk", "RISK", "risk_output", "Risk analysis completed")
compliance_node ==
  AgentUnit("compliance", "COMPLIANCE", "compliance_output", "Compliance framework outlined")
innovation_node ==
  AgentUnit("innovation", "INNOVATION", "innovation_output", "Innovation roadmap prepared")
media_node ==
  AgentUnit("media", "MEDIA", "media_output", "Media guidance completed")
qms_node ==
  AgentUnit("qms", "QMS", "qms_output", "QMS review completed")
governance_node ==
  AgentUnit("governance", "GOVERNANCE", "governance_output", "Governance review completed")
aemps_node ==
  AgentUnit("aemps", "AEMPS", "aemps_output", "AEMPS readiness assessed")

GreenHillCursor_IfNothingQueued ==
  LET queued == _next_from_targets(target_agents, "GREEN_HILL")
  IN [next_agent |-> queued, finalize |-> (queued = None)]

\* the cursor and the flag green_hill_node leaves behind: next_agent = None
\* and finalize = True, whatever is queued after it
GreenHillCursor == [next_agent |-> None, finalize |-> TRUE]

green_hill_node ==
  /\ pc = "green_hill"
  /\ Len(trace) < MaxSteps
  /\ LET content == IF env.llm THEN "llm memo" ELSE "Investor memo (LLM unavailable)"
     IN /\ outputs' = [outputs EXCEPT !["green_hill_response"] = [memo |-> content]]
        /\ IF final_answer = None \/ final_answer = ""
           THEN final_answer' = content /\ fa_writes' = fa_writes + 1
           ELSE UNCHANGED <<final_answer, fa_writes>>
  /\ history' = Append(history, [role |-> "GreenHillGPT", content |-> "Investor memo prepared"])
  /\ next_agent' = GreenHillCursor.next_agent
  /\ finalize' = GreenHillCursor.finalize
  /\ \E enabled \in BOOLEAN, outcome \in ArchiveOutcomes :
       /\ side_effects' = AfterArchive(side_effects, outputs', enabled, outcome)
       /\ env' = StoreAfterArchive(env, outputs', enabled, outcome)
  /\ pc' = router(finalize', next_agent')
  /\ trace' = Append(trace, "green_hill")
  /\ UNCHANGED <<orchestration_mode, question, source_type, metadata, payload_ref, target_agent,
                 target_agents, context, current_agent, errors, request,
                 classified, routed, final_parts,
                 at, calls>>

\* `output or {}` and dict.get(key, default) on an output field
EmptyDict == [k \in {} |-> None]
OrEmptyDict(d) == IF d = NoneDict THEN EmptyDict ELSE d
Get(d, key, default) == IF key \in DOMAIN d THEN d[key] ELSE default

\* the output fields finalize_node summarizes, in the order of its lines
SummaryFields ==
  <<"strategy_output", "finance_output", "operations_output", "market_output",
    "risk_output", "compliance_output", "innovation_output", "media_output",
    "qms_output", "governance_output", "aemps_output">>

SummaryLine_NoCtx(key) ==
  [agent |-> key, ctx |-> 0,
   detail |-> Get(OrEmptyDict(outputs[key]), "role_fields", "N/A")]

\* one line of the summary: the agent, its context_used (0 when the record
\* has none) and its role-specific values ("N/A" when the record has none)
SummaryLine(key) ==
  LET d == OrEmptyDict(outputs[key])
  IN [agent |-> key, ctx |-> Get(d, "context_used", 0),
      detail |-> Get(d, "role_fields", "N/A")]

SummaryParts_PopulatedOnly ==
  LET ran == SelectSeq(SummaryFields, LAMBDA key : outputs[key] # NoneDict)
  IN [i \in 1..Len(ran) |-> SummaryLine(ran[i])]

\* the list `parts` of finalize_node
SummaryParts == [i \in 1..Len(SummaryFields) |-> SummaryLine(SummaryFields[i])]

FinalizeEdge_BackToQueue ==
  IF target_agents # <<>> THEN NodeOf(target_agents[1]) ELSE END

\* build_graph adds no edge out of "finalize": the run ends after it
FinalizeEdge == END

finalize_node ==
  /\ pc = "finalize"
  /\ final_parts' = SummaryParts
  /\ final_answer' = "composite summary"
  /\ fa_writes' = fa_writes + 1
  /\ finalize' = TRUE
  /\ history' = Append(history, [role |-> "System", content |-> "Final synthesis completed"])
  /\ \E fail \in AuditFailures(metadata), enabled \in BOOLEAN,
        outcome \in ArchiveOutcomes :
       LET audited == AfterAudit(side_effects, metadata, fail)
           reached == ArchiveReached(audited.audit_error)
       IN /\ side_effects' =
               IF reached THEN AfterArchive(audited, outputs, enabled, outcome)
               ELSE [audited EXCEPT
                       !.archive_setting = IF enabled THEN "on" ELSE "off"]
          /\ env' = StoreAfterArchive(env, outputs, enabled /\ reached, outcome)
  /\ pc' = FinalizeEdge
  /\ trace' = Append(trace, "finalize")
  /\ UNCHANGED <<orchestration_mode, question, source_type, metadata, payload_ref, target_agent,
                 target_agents, context, outputs, current_agent, next_agent,
                 errors, request, classified, routed,
                 at, calls>>

Next ==
  \/ intake_node
  \/ digital_twin
  \/ strategy_node
  \/ operations_node
  \/ finance_node
  \/ market_intel_node
  \/ risk_node
  \/ compliance_node
  \/ innovation_node
  \/ media_node
  \/ qms_node
  \/ governance_node
  \/ aemps_node
  \/ green_hill_node
  \/ finalize_node

Spec == Init /\ [][Next]_vars

\* ------------------------------------------------ the classifier on its own
classify_effect_PopsDomain(st) == [st EXCEPT !.metadata.domain = None]

\* the state a call of classify_request leaves behind (it assigns nothing)
classify_effect(st) == st

classify_call ==
  /\ pc = "classify"
  /\ Len(classified) < MaxCalls
  /\ classified' = Append(classified, classify_request(State))
  /\ LET after == classify_effect(State)
     IN /\ question' = after.question
        /\ source_type' = after.source_type
        /\ metadata' = after.metadata
        /\ payload_ref' = after.payload_ref
        /\ target_agent' = after.target_agent
        /\ target_agents' = after.target_agents
        /\ context' = after.context
        /\ history' = after.history
        /\ outputs' = after.outputs
        /\ current_agent' = after.current_agent
        /\ next_agent' = after.next_agent
        /\ finalize' = after.finalize
        /\ final_answer' = after.final_answer
        /\ errors' = after.errors
  /\ UNCHANGED <<orchestration_mode, env, request, pc, trace, fa_writes, routed,
                 final_parts,
                 side_effects,
                 at, calls>>

ClassifyInit ==
  /\ question \in Questions
  /\ source_type \in ClassifySourceTypes
  /\ metadata \in {Meta(dom, sub, None, None) :
                      dom \in ClassifyDomains, sub \in ClassifySubdomains}
  /\ payload_ref \in PayloadRefs
  /\ target_agent = None
  /\ target_agents = <<>>
  /\ env \in {e \in Environments : e.vectordb = None}
  /\ pc = "classify"
  /\ Fresh

ClassifyNext == classify_call

ClassifySpec == ClassifyInit /\ [][ClassifyNext]_vars

\* ---------------------------------------------------- the router on its own
\* an AgentName member that is not a key of the router's table
UnlistedAgent == "strategy"
RouterCursors == AgentName \cup {None, UnlistedAgent}

\* one evaluation of the conditional edge: router reads the state and
\* returns a node name, it assigns nothing
route_call ==
  /\ pc = "route"
  /\ Len(routed) < MaxCalls
  /\ routed' = Append(routed, router(finalize, next_agent))
  /\ UNCHANGED <<orchestration_mode, question, source_type, metadata, payload_ref, target_agent,
                 target_agents, context, history, outputs, current_agent,
                 next_agent, finalize, final_answer, errors, env, request,
                 final_parts, side_effects, pc, trace, fa_writes, classified,
                 at, calls>>

RouterInit ==
  /\ question \in Questions
  /\ source_type \in SourceTypes
  /\ metadata = NoHints
  /\ payload_ref = None
  /\ target_agent = None
  /\ target_agents \in SeqsUpTo(DirectAgents, 1)
  /\ env \in {e \in Environments : e.vectordb = None}
  /\ pc = "route"
  /\ context = [retrieved_docs |-> <<>>, has_docs |-> FALSE]
  /\ history = <<>>
  /\ outputs = [f \in OutputFields |-> NoneDict]
  /\ current_agent = None
  /\ next_agent \in RouterCursors
  /\ finalize \in BOOLEAN
  /\ final_answer \in {None, NoAgentsMsg}
  /\ errors = <<>>
  /\ request = State
  /\ trace = <<>>
  /\ fa_writes = 0
  /\ classified = <<>>
  /\ routed = <<>>
  /\ final_parts = <<>>
  /\ side_effects = NoSideEffects
  /\ at = 0
  /\ calls = <<>>
  /\ orchestration_mode = "ceo"

RouterNext == route_call

RouterSpec == RouterInit /\ [][RouterNext]_vars

\* ------------------------------------------- agent nodes statement by statement
\* The calls an agent node makes, in program order: each call is a plain
\* blocking call, so its return is the next thing that happens.
AgentProgram_Overlapped ==
  <<"query_call", "llm_call", "query_return", "llm_return", "write">>

AgentProgram ==
  <<"query_call", "query_return", "llm_call", "llm_return", "write">>

\* the node name, identifier, output field and note of each agent node
AgentUnits ==
  { <<"strategy", "STRATEGY", "strategy_output", "Strategic analysis completed">>,
    <<"operations", "OPERATIONS", "operations_output", "Operations planning completed">>,
    <<"finance", "FINANCE", "finance_output", "Financial modeling completed">>,
    <<"market", "MARKET", "market_output", "Market intelligence gathered">>,
    <<"risk", "RISK", "risk_output", "Risk analysis completed">>,
    <<"compliance", "COMPLIANCE", "compliance_output", "Compliance framework outlined">>,
    <<"innovation", "INNOVATION", "innovation_output", "Innovation roadmap prepared">>,
    <<"media", "MEDIA", "media_output", "Media guidance completed">>,
    <<"qms", "QMS", "qms_output", "QMS review completed">>,
    <<"governance", "GOVERNANCE", "governance_output", "Governance review completed">>,
    <<"aemps", "AEMPS", "aemps_output", "AEMPS readiness assessed">> }

\* the graph runtime enters the node the router selected
agent_enter ==
  /\ pc \in {u[1] : u \in AgentUnits}
  /\ at = 0
  /\ Len(trace) < MaxSteps
  /\ at' = 1
  /\ calls' = Append(calls, [node |-> pc, kind |-> "start"])
  /\ trace' = Append(trace, pc)
  /\ UNCHANGED <<orchestration_mode, question, source_type, metadata, payload_ref, target_agent,
                 target_agents, context, history, outputs, current_agent,
                 next_agent, finalize, final_answer, errors, env, request,
                 final_parts, side_effects, pc, fa_writes, classified, routed>>

\* one statement of the node that is running: a call is issued, a call
\* returns, or the record is written and the cursor is set
agent_statement ==
  /\ at \in 1..Len(AgentProgram)
  /\ \E u \in AgentUnits :
       /\ pc = u[1]
       /\ calls' = Append(calls, [node |-> pc, kind |-> AgentProgram[at]])
       /\ IF AgentProgram[at] = "write"
          THEN /\ LET ctx == query(env)
                      output == [role_fields |-> u[1],
                                 analysis |-> enhance_with_llm(env),
                                 context_used |-> Len(Split(ctx))]
                  IN /\ history' = record_note(history, u[2], u[4])
                     /\ outputs' = [outputs EXCEPT ![u[3]] = output]
               /\ current_agent' = u[2]
               /\ next_agent' = _next_from_targets(target_agents, u[2])
               /\ pc' = router(finalize, next_agent')
          ELSE UNCHANGED <<history, outputs, current_agent, next_agent, pc>>
       /\ at' = IF at = Len(AgentProgram) THEN 0 ELSE at + 1
  /\ UNCHANGED <<orchestration_mode, question, source_type, metadata, payload_ref, target_agent,
                 target_agents, context, finalize, final_answer, errors, env,
                 request, final_parts, side_effects, trace, fa_writes,
                 classified, routed>>

StepInit ==
  /\ question \in Questions
  /\ source_type \in {"public", "supplier", "investor", "media_upload"}
  /\ metadata \in {NoHints, Meta("media", None, None, None)}
  /\ payload_ref = None
  /\ target_agent = None
  /\ target_agents \in SeqsUpTo(DirectAgents, MaxTargets)
  /\ env \in Environments
  /\ pc = "intake"
  /\ Fresh

StepNext ==
  \/ intake_node
  \/ digital_twin
  \/ agent_enter
  \/ agent_statement
  \/ green_hill_node
  \/ finalize_node

StepSpec == StepInit /\ [][StepNext]_vars

\* ------------------------------------ a request next to another request
\* Every request runs the compiled graph on a TwinState of its own; the
\* one object two requests share is the document store build_graph creates.
\* What the other request does to it is its archive step: add_agent_outputs
\* with that request's outputs (those of a one-agent or a two-agent run), at
\* any moment between two nodes of this one.
other_request_archives ==
  /\ pc # END
  /\ \E fields \in {{"market_output"}, {"market_output", "strategy_output"}},
        outcome \in ArchiveOutcomes :
       LET theirs == [f \in OutputFields |->
                        IF f \in fields THEN [analysis |-> "llm analysis"]
                        ELSE NoneDict]
       IN /\ env' = StoreAfterArchive(env, theirs, TRUE, outcome)
          /\ env' # env
  /\ UNCHANGED <<orchestration_mode, question, source_type, metadata, payload_ref, target_agent,
                 target_agents, context, history, outputs, current_agent,
                 next_agent, finalize, final_answer, errors, request,
                 final_parts, side_effects, pc, trace, fa_writes, classified,
                 routed, at, calls>>

ConcurrentInit ==
  /\ question \in Questions
  /\ source_type \in {"public", "investor", "web_source", "media_upload"}
  /\ metadata \in {NoHints, Meta("media", None, None, None),
                    Meta(None, None, "go ahead", None)}
  /\ payload_ref = None
  /\ target_agent \in {None, "STRATEGY"}
  /\ target_agents \in SeqsUpTo(DirectAgents, 1)
  /\ env \in Environments
  /\ pc = "intake"
  /\ Fresh

ConcurrentNext ==
  \/ Next
  \/ other_request_archives

ConcurrentSpec == ConcurrentInit /\ [][ConcurrentNext]_vars

\* the graph runtime executes the next node whenever there is one
\* ------------------------------------------------- the cursor on its own
\* _next_from_targets as a function of the queue and of the agent that
\* asks: every call is logged with its argument and its result
CursorAgents == {"STRATEGY", "FINANCE", "MARKET", "MARKET_INTEL"}
CursorCurrents == CursorAgents \cup {"RISK"}

cursor_call ==
  /\ pc = "lookup"
  /\ Len(calls) < MaxCalls
  /\ \E current \in CursorCurrents :
       calls' = Append(calls,
                       [current |-> current,
                        result |-> _next_from_targets(target_agents, current)])
  /\ target_agents' = targets_after_lookup(target_agents)
  /\ UNCHANGED <<orchestration_mode, question, source_type, metadata,
                 payload_ref, target_agent, context, history, outputs,
                 current_agent, next_agent, finalize, final_answer, errors,
                 env, request, final_parts, side_effects, pc, trace,
                 fa_writes, classified, routed, at>>

CursorInit ==
  /\ question = "q"
  /\ source_type = "public"
  /\ metadata = NoHints
  /\ payload_ref = None
  /\ target_agent = None
  /\ target_agents \in SeqsUpTo(CursorAgents, MaxTargets + 1)
  /\ env \in {e \in Environments : e.vectordb = None}
  /\ pc = "lookup"
  /\ Fresh

CursorNext == cursor_call

CursorSpec == CursorInit /\ [][CursorNext]_vars

\* ----------------------------------------- the legacy root-level graph
\* ghc_twin.py at the root of the repository: START -> start_router ->
\* digital_twin or a direct agent -> the hard-wired chain -> END.  The
\* notes and ceo_feedbacks lists grow with history and are not carried.
LegacyAgentName ==
  {"strategy", "operations", "finance", "market", "risk", "compliance",
   "innovation", "green_hill"}

\* AgentName.<member>.value
LegacyValue(a) ==
  CASE a = "strategy" -> "Strategy"
    [] a = "operations" -> "Operations"
    [] a = "finance" -> "Finance"
    [] a = "market" -> "Market"
    [] a = "risk" -> "Risk"
    [] a = "compliance" -> "Compliance"
    [] a = "innovation" -> "Innovation"
    [] a = "green_hill" -> "GreenHillGPT"

LegacyOutputFields ==
  {"strategy_output", "operations_output", "finance_output", "market_output",
   "risk_output", "compliance_output", "innovation_output",
   "green_hill_response"}

LegacySourceTypes ==
  {None, "", "master", "shareholder", "INVESTOR", "supplier", "provider",
   "public", "Public", "unknown"}

LegacyModes == {"ceo", "direct"}

\* the vector store on disk and the optional external endpoint
LegacyEnvironments ==
  [vectordb : {None, "chroma"}, raises : BOOLEAN, ndocs : {0, MaxDocs},
   green_hill : {"unset", "ok", "fails"}]

LegacyMissingQuestionMsg == "Error: Missing 'question' in state"
LegacyTitle == "# Green Hill Canarias Digital Twin Analysis"

\* f"{agent.value.lower()}_output"
LegacyField(a) ==
  CASE a = "strategy" -> "strategy_output"
    [] a = "operations" -> "operations_output"
    [] a = "finance" -> "finance_output"
    [] a = "market" -> "market_output"
    [] a = "risk" -> "risk_output"
    [] a = "compliance" -> "compliance_output"
    [] a = "innovation" -> "innovation_output"
    [] a = "green_hill" -> "greenhillgpt_output"

\* the key of its output that the composite answer quotes for each agent
LegacyHeadline(a) ==
  CASE a = "strategy" -> "strategic_focus"
    [] a = "finance" -> "roi_projection"
    [] a = "operations" -> "implementation_schedule"
    [] a = "market" -> "growth_projection"
    [] a = "risk" -> "risk_assessment"
    [] a = "compliance" -> "timeline"
    [] a = "innovation" -> "r_and_d_focus"

LegacyInit ==
  /\ question \in Questions
  /\ source_type \in LegacySourceTypes
  /\ orchestration_mode \in LegacyModes
  /\ target_agent \in {None} \cup LegacyAgentName
  /\ env \in LegacyEnvironments
  /\ metadata = NoHints
  /\ payload_ref = None
  /\ target_agents = <<>>
  /\ context = [retrieved_docs |-> <<>>, has_docs |-> FALSE]
  /\ history = <<>>
  /\ outputs = [f \in LegacyOutputFields |-> NoneDict]
  /\ current_agent = None
  /\ next_agent = None
  /\ finalize = FALSE
  /\ final_answer = None
  /\ errors = <<>>
  /\ request = State
  /\ pc = "START"
  /\ trace = <<>>
  /\ fa_writes = 0
  /\ classified = <<>>
  /\ routed = <<>>
  /\ final_parts = <<>>
  /\ side_effects = NoSideEffects
  /\ at = 0
  /\ calls = <<>>

\* start_router: the conditional edge out of START
start_router(mode, target) ==
  IF mode = "direct" /\ target # None THEN target ELSE "digital_twin"

\* router of the legacy graph: the conditional edge after digital_twin and
\* after the seven chain agents
legacy_router(fin, next) ==
  IF fin THEN END
  ELSE IF next \in LegacyAgentName THEN next ELSE END

legacy_start ==
  /\ pc = "START"
  /\ pc' = start_router(orchestration_mode, target_agent)
  /\ UNCHANGED <<orchestration_mode, question, source_type, metadata,
                 payload_ref, target_agent, target_agents, context, history,
                 outputs, current_agent, next_agent, finalize, final_answer,
                 errors, env, request, final_parts, side_effects, trace,
                 fa_writes, classified, routed, at, calls>>

LegacyFirstHop_PublicByDefault(role) ==
  CASE role \in {"master", "shareholder", "investor"} -> "strategy"
    [] role \in {"supplier", "provider"} -> "operations"
    [] OTHER -> "compliance"

\* the role-aware default of digital_twin_node
LegacyFirstHop(role) ==
  CASE role \in {"master", "shareholder", "investor"} -> "strategy"
    [] role \in {"supplier", "provider"} -> "operations"
    [] role = "public" -> "compliance"
    [] OTHER -> "strategy"

\* similarity_search(question, k=5) or the fallback text
LegacyRetrieved(e) ==
  IF e.vectordb # None
  THEN [i \in 1..e.ndocs |-> "doc"]
  ELSE <<"No vector store available - using baseline knowledge">>

legacy_digital_twin_node ==
  /\ pc = "digital_twin"
  /\ trace' = Append(trace, "digital_twin")
  /\ IF MissingQuestion(question)
     THEN /\ errors' = Append(errors, "Missing 'question' in state")
          /\ finalize' = TRUE
          /\ final_answer' = <<LegacyMissingQuestionMsg>>
          /\ fa_writes' = fa_writes + 1
          /\ UNCHANGED <<context, next_agent>>
     ELSE /\ IF env.vectordb # None /\ env.raises
             THEN /\ errors' =
                       Append(errors, "Digital Twin initialization error")
                  /\ context' = [retrieved_docs |->
                                   <<"Error retrieving documents">>,
                                 has_docs |-> TRUE]
                  /\ next_agent' = "strategy"
             ELSE /\ context' = [retrieved_docs |-> LegacyRetrieved(env),
                                 has_docs |-> TRUE]
                  /\ next_agent' =
                       IF orchestration_mode = "direct" /\ target_agent # None
                       THEN target_agent
                       ELSE LegacyFirstHop(Lower(OrElse(source_type, "")))
                  /\ UNCHANGED errors
          /\ UNCHANGED <<finalize, final_answer, fa_writes>>
  /\ pc' = legacy_router(finalize', next_agent')
  /\ UNCHANGED <<orchestration_mode, question, source_type, metadata,
                 payload_ref, target_agent, target_agents, history, outputs,
                 current_agent, env, request, final_parts, side_effects,
                 classified, routed, at, calls>>

\* record(state, agent, content, <agent>_output=output): the history entry
legacy_record(hist, agent, content) ==
  Append(hist, [role |-> LegacyValue(agent), content |-> content])

\* the output dict of a chain agent by the keys that are read later
LegacyOutput(agent, ctx) ==
  [headline |-> LegacyHeadline(agent),
   context_used |-> Len(ctx.retrieved_docs)]

LegacyChainNext_SkipsMarket(agent) ==
  CASE agent = "strategy" -> "finance"
    [] agent = "finance" -> "operations"
    [] agent = "operations" -> "risk"
    [] agent = "market" -> "risk"
    [] agent = "risk" -> "compliance"
    [] agent = "compliance" -> "innovation"

\* the successor each chain agent assigns to next_agent
LegacyChainNext(agent) ==
  CASE agent = "strategy" -> "finance"
    [] agent = "finance" -> "operations"
    [] agent = "operations" -> "market"
    [] agent = "market" -> "risk"
    [] agent = "risk" -> "compliance"
    [] agent = "compliance" -> "innovation"

\* strategy_node .. compliance_node: build the output, record it, point at
\* the hard-wired successor
LegacyChainAgent(agent, content) ==
  /\ pc = agent
  /\ trace' = Append(trace, agent)
  /\ history' = legacy_record(history, agent, content)
  /\ outputs' = [outputs EXCEPT ![LegacyField(agent)] =
                   LegacyOutput(agent, context)]
  /\ current_agent' = agent
  /\ next_agent' = LegacyChainNext(agent)
  /\ pc' = legacy_router(finalize, next_agent')
  /\ UNCHANGED <<orchestration_mode, question, source_type, metadata,
                 payload_ref, target_agent, target_agents, context, finalize,
                 final_answer, errors, env, request, final_parts,
                 side_effects, fa_writes, classified, routed, at, calls>>

legacy_strategy_node == LegacyChainAgent("strategy", "Strategic analysis completed")
legacy_finance_node == LegacyChainAgent("finance", "Financial modeling completed")
legacy_operations_node == LegacyChainAgent("operations", "Operations planning completed")
legacy_market_node == LegacyChainAgent("market", "Market intelligence gathered")
legacy_risk_node == LegacyChainAgent("risk", "Risk analysis completed")
legacy_compliance_node == LegacyChainAgent("compliance", "Compliance framework outlined")

\* requests.post(GREEN_HILL_URL, ...).json() when URL and KEY are set
LegacyResponse == [headline |-> "external", context_used |-> 0]

\* one summary line: the agent and the quoted key, "N/A" without an output
LegacyPart(outs, agent) ==
  <<agent, IF outs[LegacyField(agent)] = NoneDict THEN "N/A"
           ELSE outs[LegacyField(agent)].headline>>

LegacyChainOrder ==
  <<"strategy", "finance", "operations", "market", "risk", "compliance",
    "innovation">>

\* the composite answer of innovation_node
LegacyAnalysis(outs) ==
  <<LegacyTitle>> \o [i \in 1..7 |-> LegacyPart(outs, LegacyChainOrder[i])]
    \o (IF outs["green_hill_response"] # NoneDict
        THEN <<"Green Hill GPT">> ELSE <<>>)

legacy_innovation_node ==
  /\ pc = "innovation"
  /\ trace' = Append(trace, "innovation")
  /\ history' = legacy_record(history, "innovation",
                              "Innovation roadmap prepared")
  /\ outputs' =
       [outputs EXCEPT
          !["innovation_output"] = LegacyOutput("innovation", context),
          !["green_hill_response"] =
             IF env.green_hill = "ok" THEN LegacyResponse ELSE @]
  /\ errors' = IF env.green_hill = "fails"
               THEN Append(errors, "Green Hill GPT error") ELSE errors
  /\ current_agent' = "innovation"
  /\ finalize' = TRUE
  /\ final_answer' = LegacyAnalysis(outputs')
  /\ fa_writes' = fa_writes + 1
  /\ pc' = legacy_router(finalize', next_agent)
  /\ UNCHANGED <<orchestration_mode, question, source_type, metadata,
                 payload_ref, target_agent, target_agents, context,
                 next_agent, env, request, final_parts, side_effects,
                 classified, routed, at, calls>>

\* the three lines green_hill_node appends to the answer
LegacyMinimal(outs) ==
  [i \in 1..3 |-> LegacyPart(outs, LegacyChainOrder[i])]
    \o (IF outs["green_hill_response"] # NoneDict
        THEN <<"Green Hill GPT">> ELSE <<>>)

\* green_hill has no outgoing edge: the run ends after it
legacy_green_hill_node ==
  /\ pc = "green_hill"
  /\ trace' = Append(trace, "green_hill")
  /\ history' = legacy_record(history, "green_hill",
                              "Green Hill GPT consultation starting")
  /\ outputs' = [outputs EXCEPT !["green_hill_response"] =
                   IF env.green_hill = "ok" THEN LegacyResponse ELSE @]
  /\ errors' = IF env.green_hill = "fails"
               THEN Append(errors, "Green Hill GPT error") ELSE errors
  /\ current_agent' = "green_hill"
  /\ IF ~finalize
     THEN /\ final_answer' =
               (IF final_answer = None THEN <<>> ELSE final_answer)
                 \o LegacyMinimal(outputs')
          /\ fa_writes' = fa_writes + 1
          /\ finalize' = TRUE
     ELSE UNCHANGED <<final_answer, fa_writes, finalize>>
  /\ pc' = END
  /\ UNCHANGED <<orchestration_mode, question, source_type, metadata,
                 payload_ref, target_agent, target_agents, context,
                 next_agent, env, request, final_parts, side_effects,
                 classified, routed, at, calls>>

LegacyNext ==
  \/ legacy_start
  \/ legacy_digital_twin_node
  \/ legacy_strategy_node
  \/ legacy_finance_node
  \/ legacy_operations_node
  \/ legacy_market_node
  \/ legacy_risk_node
  \/ legacy_compliance_node
  \/ legacy_innovation_node
  \/ legacy_green_hill_node

LegacySpec == LegacyInit /\ [][LegacyNext]_vars

\* the runtime keeps scheduling the one enabled node until END
LegacyFairSpec == LegacySpec /\ WF_vars(LegacyNext)

\* ------------------------------------------------- the app/main.py graph
\* create_app: entry point strategy, a conditional edge with its own map
\* after each of the seven agents, finalize -> END.  run_query invokes it
\* with TwinState(question=question).
\* AgentName.<member>.value
AgentValue(a) ==
  CASE a = "STRATEGY" -> "strategy"
    [] a = "OPERATIONS" -> "operations"
    [] a = "FINANCE" -> "finance"
    [] a = "MARKET" -> "market"
    [] a = "MARKET_INTEL" -> "market_intel"
    [] a = "RISK" -> "risk"
    [] a = "COMPLIANCE" -> "compliance"
    [] a = "INNOVATION" -> "innovation"
    [] OTHER -> "green_hill_gpt"

router_logic_FollowsChain(fin, next, successor) ==
  IF fin THEN END ELSE successor

\* router_logic; successor is not read by the code
router_logic(fin, next, successor) ==
  IF fin THEN END
  ELSE IF next = None THEN "finalize"
  ELSE AgentValue(next)

\* the node each agent's conditional-edge map names besides finalize and END
MainSuccessor(node) ==
  CASE node = "strategy" -> "operations"
    [] node = "operations" -> "finance"
    [] node = "finance" -> "market_intel"
    [] node = "market_intel" -> "risk"
    [] node = "risk" -> "compliance"
    [] node = "compliance" -> "innovation"
    [] node = "innovation" -> "finalize"

\* the keys of the conditional-edge map after node
MainEdgeKeys(node) == {MainSuccessor(node), "finalize", END}

\* an agent node of app/agents.py under the edges of create_app: a router
\* result that is not a key of the node's map raises in the runtime
MainAgent(node, agent, output_key, note) ==
  /\ pc = node
  /\ Len(trace) < MaxSteps
  /\ trace' = Append(trace, node)
  /\ IF AgentRaises(env)
     THEN /\ pc' = "raised"
          /\ UNCHANGED <<history, outputs, current_agent, next_agent, routed>>
     ELSE /\ LET ctx == query(env)
                 output == [role_fields |-> node,
                            analysis |-> enhance_with_llm(env),
                            context_used |-> Len(Split(ctx))]
             IN /\ history' = record_note(history, agent, note)
                /\ outputs' = set_output(outputs, output_key, output)
          /\ current_agent' = agent
          /\ next_agent' = _next_from_targets(target_agents, agent)
          /\ LET route == router_logic(finalize, next_agent',
                                       MainSuccessor(node))
             IN /\ routed' = Append(routed, route)
                /\ pc' = IF route \in MainEdgeKeys(node) THEN route
                         ELSE "raised"
  /\ target_agents' =
       IF AgentRaises(env) THEN target_agents
       ELSE targets_after_lookup(target_agents)
  /\ UNCHANGED <<orchestration_mode, question, source_type, metadata,
                 payload_ref, target_agent, context, finalize, final_answer,
                 errors, env, request, fa_writes, classified, final_parts,
                 side_effects, at, calls>>

main_strategy_node ==
  MainAgent("strategy", "STRATEGY", "strategy_output", "Strategic analysis completed")
main_operations_node ==
  MainAgent("operations", "OPERATIONS", "operations_output", "Operations planning completed")
main_finance_node ==
  MainAgent("finance", "FINANCE", "finance_output", "Financial modeling completed")
main_market_intel_node ==
  MainAgent("market_intel", "MARKET", "market_output", "Market intelligence gathered")
main_risk_node ==
  MainAgent("risk", "RISK", "risk_output", "Risk analysis completed")
main_compliance_node ==
  MainAgent("compliance", "COMPLIANCE", "compliance_output", "Compliance framework outlined")
main_innovation_node ==
  MainAgent("innovation", "INNOVATION", "innovation_output", "Innovation roadmap prepared")

\* target_agents of the initial state: empty as run_query builds it, short
\* caller-supplied lists, and the list that names the whole workflow
MainQueues ==
  SeqsUpTo({"STRATEGY", "OPERATIONS", "FINANCE", "MARKET"}, MaxTargets)
    \cup {<<"STRATEGY", "OPERATIONS", "FINANCE", "MARKET_INTEL", "RISK",
            "COMPLIANCE", "INNOVATION">>}

MainInit ==
  /\ question \in Questions
  /\ source_type = "public"
  /\ metadata \in {NoHints, Meta(None, None, "go ahead", None)}
  /\ payload_ref = None
  /\ target_agent = None
  /\ target_agents \in MainQueues
  /\ env \in Environments
  /\ pc = "strategy"
  /\ Fresh

MainNext ==
  \/ main_strategy_node
  \/ main_operations_node
  \/ main_finance_node
  \/ main_market_intel_node
  \/ main_risk_node
  \/ main_compliance_node
  \/ main_innovation_node
  \/ finalize_node

MainSpec == MainInit /\ [][MainNext]_vars

FairSpec == Spec /\ WF_vars(Next)

\* ================================================================ claims
Terminated == pc = END
AgentsRun == SelectSeq(trace, LAMBDA n : n \in AgentNodes)
Count(seq, x) == Cardinality({i \in 1..Len(seq) : seq[i] = x})
Populated == {f \in OutputFields : outputs[f] # NoneDict}
IsPrefix(a, b) == Len(a) <= Len(b) /\ \A i \in 1..Len(a) : a[i] = b[i]
QuestionAbsent == request.question \in {None, ""}

QueueFixed == ~QuestionAbsent /\ Contains(trace, "digital_twin")

\* C2 (as claimed): for any non-empty target_agents list of length N the
\* agent invocations are the list entries in order, after the i-th
\* invocation next_agent is entry i+1 (None after the last), and exactly N
\* invocations have occurred when finalize is reached or the run ends.
C2_ChainTermination ==
  (QueueFixed /\ target_agents # <<>>) =>
    LET N == Len(target_agents)
        k == Len(AgentsRun)
    IN /\ k <= N
       /\ \A i \in 1..k : i <= N => AgentsRun[i] = NodeOf(target_agents[i])
       /\ (k >= 1 /\ k < N /\ trace[Len(trace)] \in AgentNodes) =>
            next_agent = target_agents[k + 1]
       /\ (k >= N /\ trace[Len(trace)] \in AgentNodes) => next_agent = None
       /\ (Terminated \/ Contains(trace, "finalize")) => k = N

ValidationPath ==
  /\ QuestionAbsent
  /\ finalize = TRUE
  /\ final_answer = MissingQuestionMsg
  /\ AgentsRun = <<>>
EmptyClassificationPath ==
  /\ ~QuestionAbsent
  /\ finalize = TRUE
  /\ final_answer = NoAgentsMsg
  /\ target_agents = <<>>
  /\ AgentsRun = <<>>
AgentSequencePath ==
  /\ ~QuestionAbsent
  /\ target_agents # <<>>
  /\ AgentsRun # <<>> \/ pc \in AgentNodes

\* C4: once digital_twin has run, exactly one of the validation-error path,
\* the empty-classification path and the agent sequence is being executed,
\* and every terminated state has finalize = True.
C4_OnePathAndFinalize ==
  /\ Contains(trace, "digital_twin") =>
       Cardinality({p \in {"validation", "empty", "agents"} :
                      \/ p = "validation" /\ ValidationPath
                      \/ p = "empty" /\ EmptyClassificationPath
                      \/ p = "agents" /\ AgentSequencePath}) = 1
  /\ Terminated => finalize = TRUE

C4_Witness ==
  /\ Terminated
  /\ AgentSequencePath
  /\ Contains(trace, "finalize")
  /\ Contains(trace, "media")

C6_FinalizeIsTerminal ==
  [][Contains(trace, "finalize") =>
       /\ outputs' = outputs
       /\ trace' # trace => trace'[Len(trace')] \notin AgentNodes]_vars

C6_Witness ==
  /\ Contains(trace, "finalize")
  /\ trace[Len(trace)] = "finalize"
  /\ Terminated
  /\ Cardinality(Populated) >= 2

\* C7: final_answer is assigned at most once in a run and exactly once in a
\* terminated run, by digital_twin (validation error or empty
\* classification), by green_hill or by finalize.
C7_FinalAnswerOnce ==
  /\ fa_writes <= 1
  /\ fa_writes = 0 <=> final_answer = None
  /\ Terminated => fa_writes = 1
  /\ final_answer # None =>
       \/ final_answer \in {MissingQuestionMsg, NoAgentsMsg} /\ AgentsRun = <<>>
       \/ Contains(trace, "green_hill") /\ ~Contains(trace, "finalize")
       \/ Contains(trace, "finalize") /\ ~Contains(trace, "green_hill")

C7_Witness ==
  /\ Terminated
  /\ Contains(trace, "green_hill")
  /\ Len(AgentsRun) >= 2
  /\ fa_writes = 1

InvestorRequest ==
  /\ request.question = "q"
  /\ request.source_type = "investor"
  /\ request.metadata = Meta(None, None, None, None)
  /\ request.target_agent = None
  /\ request.target_agents = <<>>

InvestorFields ==
  {"strategy_output", "finance_output", "market_output", "risk_output",
   "green_hill_response"}

InvestorResult ==
  /\ finalize = TRUE
  /\ final_answer \notin {None, ""}
  /\ Populated = InvestorFields

MatchesHint(md) ==
  \/ md.domain \in {"media", "Media", "governance", "sha_canonical"}
  \/ /\ md.domain \in {"compliance", "COMPLIANCE"}
     /\ md.subdomain \in {"qms playbook", "QMS Playbook", "sop index",
                          "aemps assessment application"}
  \/ md.domain = "strategic_plan" /\ md.subdomain = "regulatory"

MasterList ==
  <<"STRATEGY", "FINANCE", "OPERATIONS", "MARKET", "RISK", "COMPLIANCE",
    "INNOVATION", "GREEN_HILL">>

\* C9: without a matching domain hint, classify_request returns the eight
\* agent master list for source_type master in any letter case, and
\* [market, strategy] for source_type public or an absent or empty one.
C9_MasterAndPublic ==
  \A i \in 1..Len(classified) :
    ~MatchesHint(request.metadata) =>
      /\ request.source_type \in {"master", "MASTER", "Master"} =>
           classified[i] = MasterList
      /\ request.source_type \in {"public", "", None} =>
           classified[i] = <<"MARKET", "STRATEGY">>

C9_Witness ==
  /\ Len(classified) >= 1
  /\ request.source_type = "MASTER"
  /\ request.metadata = Meta("COMPLIANCE", "other", None, None)
  /\ classified[1] = MasterList

\* states that differ from the current one only in fields other than
\* source_type and metadata
OtherFieldVariants ==
  { [State EXCEPT !.question = q, !.next_agent = n, !.current_agent = n,
                  !.finalize = f, !.history = h, !.outputs = o, !.context = c]
    : q \in Questions, n \in {None, "MARKET", "GREEN_HILL"}, f \in BOOLEAN,
      h \in {<<>>, <<[role |-> "System", content |-> "Intake processed"]>>},
      o \in {outputs,
             [outputs EXCEPT !["market_output"] =
                [analysis |-> "llm analysis", context_used |-> 1]]},
      c \in {context, [retrieved_docs |-> <<"doc">>, has_docs |-> TRUE]} }

NoCallerTargets == request.target_agent = None /\ request.target_agents = <<>>

\* the list a domain hint stands for, written out string by string
HintList(md) ==
  IF md.domain \in {"media", "Media"} THEN <<"MEDIA">>
  ELSE IF md.domain \in {"governance", "sha_canonical"} THEN <<"GOVERNANCE">>
  ELSE IF md.subdomain \in {"qms playbook", "QMS Playbook", "sop index"}
    THEN <<"QMS">>
  ELSE <<"AEMPS">>

\* C11 (as claimed): for every source_type, a request with a question, no
\* caller-supplied target and a known domain hint gets the hint's list as its
\* agent queue, web_source and ocs_feed included.
C11_HintOverrides ==
  (QueueFixed /\ NoCallerTargets /\ MatchesHint(request.metadata)) =>
    target_agents = HintList(request.metadata)

\* C12 (as claimed): a non-empty caller-supplied target_agents list is the
\* agent queue as it stands, and a caller-supplied target_agent that is not
\* in the list is put in front of it and is the first agent to run.
C12_DirectMode ==
  (QueueFixed /\ request.target_agents # <<>>) =>
    IF \/ request.target_agent = None
       \/ Contains(request.target_agents, request.target_agent)
    THEN target_agents = request.target_agents
    ELSE /\ target_agents = <<request.target_agent>> \o request.target_agents
         /\ next_agent = request.target_agent \/ AgentsRun # <<>>
         /\ AgentsRun # <<>> => AgentsRun[1] = NodeOf(request.target_agent)

\* source types the classifier table does not list, written out
UnlistedSourceType == request.source_type \in {"media_upload", "unknown"}

\* C13: a request with a question, a source_type outside the classifier
\* table, no matching domain hint and no caller-supplied target ends right
\* after digital_twin with finalize = True and a final_answer other than the
\* validation message; neither an agent node nor the finalize node runs and
\* no per-agent output field is populated.
C13_EmptyClassification ==
  (~QuestionAbsent /\ UnlistedSourceType /\ ~MatchesHint(request.metadata)
     /\ NoCallerTargets) =>
    /\ \A i \in 1..Len(trace) : trace[i] \in {"intake", "digital_twin"}
    /\ pc \in {"intake", "digital_twin", END}
    /\ Populated = {}
    /\ Contains(trace, "digital_twin") =>
         /\ Terminated
         /\ finalize = TRUE
         /\ final_answer \notin {None, "", "Error: Missing question"}
         /\ target_agents = <<>>

C13_Witness ==
  /\ ~QuestionAbsent
  /\ request.source_type = "media_upload"
  /\ request.metadata.domain = "compliance"
  /\ request.metadata.subdomain = "other"
  /\ NoCallerTargets
  /\ Terminated
  /\ trace = <<"intake", "digital_twin">>
  /\ final_answer = "No suitable agents selected"

\* the lists that differ from list in one position, where one of them has
\* "MARKET" and the other the legacy identifier "MARKET_INTEL"
AliasVariants(list) ==
  { [list EXCEPT ![i] = IF list[i] = "MARKET" THEN "MARKET_INTEL" ELSE "MARKET"]
    : i \in {j \in 1..Len(list) : list[j] \in {"MARKET", "MARKET_INTEL"}} }

\* the identifier each agent node passes to _next_from_targets
AgentOfNode(node) ==
  CASE node = "strategy" -> "STRATEGY"
    [] node = "finance" -> "FINANCE"
    [] node = "operations" -> "OPERATIONS"
    [] node = "market" -> "MARKET"
    [] node = "risk" -> "RISK"
    [] node = "compliance" -> "COMPLIANCE"
    [] node = "innovation" -> "INNOVATION"
    [] node = "media" -> "MEDIA"
    [] node = "qms" -> "QMS"
    [] node = "governance" -> "GOVERNANCE"
    [] node = "aemps" -> "AEMPS"
    [] OTHER -> "GREEN_HILL"

\* the agent nodes a run over queue invokes from cursor nxt on, at most k
RECURSIVE NodesFrom(_, _, _)
NodesFrom(queue, nxt, k) ==
  IF k = 0 \/ nxt = None \/ NodeOf(nxt) = END THEN <<>>
  ELSE IF NodeOf(nxt) = "green_hill" THEN <<"green_hill">>
  ELSE <<NodeOf(nxt)>> \o
       NodesFrom(queue, _next_from_targets(queue, AgentOfNode(NodeOf(nxt))), k - 1)

\* the agent nodes of the run on the request with caller list `list` in
\* place of its own non-empty one
NodesOfRequestWith(list) ==
  LET queue == IF request.target_agent # None
                    /\ ~Contains(list, request.target_agent)
               THEN Append(list, request.target_agent)
               ELSE list
  IN NodesFrom(queue, queue[1], MaxSteps - 2)

\* C14 (as claimed): for any target_agents list, the run on the list with
\* one "market" entry replaced by "market_intel" invokes the same nodes in
\* the same order and ends the same way as the run on the list itself.
C14_AliasSameRun ==
  (QueueFixed /\ request.target_agents # <<>>) =>
    \A variant \in AliasVariants(request.target_agents) :
      /\ IsPrefix(AgentsRun, NodesOfRequestWith(variant))
      /\ Terminated => AgentsRun = NodesOfRequestWith(variant)

\* the router's table, written out
NodeTable ==
  [a \in AgentName |->
     CASE a = "STRATEGY" -> "strategy"
       [] a = "FINANCE" -> "finance"
       [] a = "OPERATIONS" -> "operations"
       [] a \in {"MARKET", "MARKET_INTEL"} -> "market"
       [] a = "RISK" -> "risk"
       [] a = "COMPLIANCE" -> "compliance"
       [] a = "INNOVATION" -> "innovation"
       [] a = "MEDIA" -> "media"
       [] a = "QMS" -> "qms"
       [] a = "GOVERNANCE" -> "governance"
       [] a = "AEMPS" -> "aemps"
       [] OTHER -> "green_hill"]

\* C15: router returns END whenever finalize is true, whatever next_agent
\* is; otherwise "finalize" when next_agent is unset; otherwise the node
\* the table maps next_agent to, and END for an identifier the table does not
\* hold; and a call leaves the state as it was.
C15_Router ==
  pc = "route" =>
    /\ \A i \in 1..Len(routed) :
         routed[i] =
           IF request.finalize THEN "__end__"
           ELSE IF request.next_agent = "None" THEN "finalize"
           ELSE IF request.next_agent \in DOMAIN NodeTable
             THEN NodeTable[request.next_agent]
           ELSE "__end__"
    /\ State = request

C15_Witness ==
  /\ pc = "route"
  /\ Len(routed) = MaxCalls
  /\ ~request.finalize
  /\ request.next_agent = "strategy"
  /\ routed[1] = "__end__"

\* C16 (as claimed): after digital_twin has run on a request with a
\* question, context["retrieved_docs"] is not empty, whether the index is
\* unavailable, the query fails or the index returns zero documents, and
\* DocumentStore.query does not return an empty result.
C16_ContextNonEmpty ==
  QueueFixed =>
    /\ context.has_docs
    /\ context.retrieved_docs # <<>>
    /\ query(env) # <<>>

\* the lines of the composite answer that are about output field f
LinesOf(f) == {i \in 1..Len(final_parts) : final_parts[i].agent = f}

\* C17: whenever the finalize node has run, the composite answer has exactly
\* one summary line for every agent whose output record is populated, and
\* that line shows the record's context_used value.
C17_LinePerPopulatedAgent ==
  Contains(trace, "finalize") =>
    \A f \in Populated \ {"green_hill_response"} :
      /\ Cardinality(LinesOf(f)) = 1
      /\ \A i \in LinesOf(f) : final_parts[i].ctx = outputs[f].context_used

C17_Witness ==
  /\ Contains(trace, "finalize")
  /\ Populated = {"market_output", "strategy_output"}
  /\ outputs["market_output"].context_used = MaxDocs
  /\ \E i \in 1..Len(final_parts) :
       final_parts[i].agent = "market_output" /\ final_parts[i].ctx = MaxDocs

AnalyticNodes == AgentNodes \ {"green_hill"}

\* the output field each analytical node writes
FieldOfNode(node) ==
  CASE node = "strategy" -> "strategy_output"
    [] node = "finance" -> "finance_output"
    [] node = "operations" -> "operations_output"
    [] node = "market" -> "market_output"
    [] node = "risk" -> "risk_output"
    [] node = "compliance" -> "compliance_output"
    [] node = "innovation" -> "innovation_output"
    [] node = "media" -> "media_output"
    [] node = "qms" -> "qms_output"
    [] node = "governance" -> "governance_output"
    [] OTHER -> "aemps_output"

\* the entry after the first one that names agent (market_intel counting as
\* market), None when there is none: the cursor of the all-success case,
\* which reads the queue only
EntryAfter(list, agent) ==
  LET canon(a) == IF a = "MARKET_INTEL" THEN "MARKET" ELSE a
      hits == {i \in 1..Len(list) : canon(list[i]) = canon(agent)}
  IN IF hits = {} THEN "None"
     ELSE LET first == CHOOSE i \in hits : \A j \in hits : i <= j
          IN IF first < Len(list) THEN list[first + 1] ELSE "None"

C20_FinalizeDespiteSideEffects ==
  [][(pc = "finalize" /\ trace' # trace) =>
       /\ pc' = "__end__"
       /\ finalize' = TRUE
       /\ final_answer' = "composite summary"
       /\ Len(final_parts') = 11
       /\ outputs' = outputs
       /\ side_effects'.archive_setting = "on" =>
            side_effects'.archive_calls = side_effects.archive_calls + 1
       /\ side_effects'.archive_setting = "off" =>
            side_effects'.archive_calls = side_effects.archive_calls]_vars

C20_Witness ==
  /\ Contains(trace, "finalize")
  /\ request.metadata.decision = "go ahead"
  /\ side_effects.audit_error
  /\ side_effects.decision_register = 0
  /\ side_effects.archive_setting = "on"
  /\ side_effects.archive_calls = 1
  /\ side_effects.archive_error
  /\ side_effects.archived = {}
  /\ finalize = TRUE
  /\ final_answer = "composite summary"
  /\ Populated # {}

DecisionAnnotated == request.metadata.decision \notin {"None", ""}
IssueAnnotated == request.metadata.capa_issue \notin {"None", ""}

\* C21 (as claimed): a run that executed agents and ended with finalize =
\* True has appended exactly one record to the decision register if the
\* metadata carries a decision, and exactly one record to the CAPA log if it
\* carries an issue, whatever the classification; a failed write to the
\* decision register does not suppress the CAPA record.
C21_OneRecordPerAnnotation ==
  (Terminated /\ AgentsRun # <<>> /\ finalize = TRUE) =>
    /\ (DecisionAnnotated /\ side_effects.audit_failed_at # "decision_register")
         => side_effects.decision_register = 1
    /\ (IssueAnnotated /\ side_effects.audit_failed_at # "capa_log")
         => side_effects.capa_log = 1
    /\ ~DecisionAnnotated => side_effects.decision_register = 0
    /\ ~IssueAnnotated => side_effects.capa_log = 0

IntakeEntry == [role |-> "System", content |-> "Intake processed"]

\* C22: a step that writes a per-agent output field appends exactly one
\* history entry, and after every step of a run the history has one entry
\* for intake, one per agent invocation so far and one more if the finalize
\* node has run, the first entry being the intake entry.
C22_HistoryAccounting ==
  [][/\ outputs' # outputs =>
          Len(history') = Len(history) + 1 /\ IsPrefix(history, history')
     /\ Len(history') = 1 + Len(AgentsRun')
                          + (IF Contains(trace', "finalize") THEN 1 ELSE 0)
     /\ history'[1] = IntakeEntry]_vars

C22_Witness ==
  /\ trace = <<"intake", "digital_twin", "market", "strategy", "finalize">>
  /\ Len(history) = 4
  /\ history[1] = IntakeEntry
  /\ history[2].role = "MARKET"
  /\ history[4].content = "Final synthesis completed"
  /\ Populated = {"market_output", "strategy_output"}

\* the node the conditional edge selects, from the two fields router reads
RouteOf(fin, nxt) ==
  IF fin THEN "__end__"
  ELSE IF nxt = "None" THEN "finalize"
  ELSE IF nxt \in DOMAIN NodeTable THEN NodeTable[nxt]
  ELSE "__end__"

HistoryVariants ==
  {<<>>, <<IntakeEntry>>,
   <<IntakeEntry, [role |-> "MARKET", content |-> "Market intelligence gathered"]>>,
   <<[role |-> "GreenHillGPT", content |-> "Investor memo prepared"]>>}

\* C23: in every step the history before the step is a prefix of the
\* history after it, and the control decisions do not read it: the
\* classifier returns the same list whatever the history, the cursor an
\* agent leaves is the entry the queue determines, and the node selected
\* on a conditional edge is the one finalize and next_agent determine.
C23_HistoryAppendOnly ==
  [][/\ IsPrefix(history, history')
     /\ \A h \in HistoryVariants :
          classify_request([State EXCEPT !.history = h]) = classify_request(State)
     /\ pc \in AnalyticNodes =>
          next_agent' = EntryAfter(target_agents, AgentOfNode(pc))
     /\ pc \notin {"intake", "finalize"} =>
          pc' = RouteOf(finalize', next_agent')]_vars

C23_Witness ==
  /\ Terminated
  /\ request.source_type = "MASTER"
  /\ Len(history) = 9
  /\ history[1] = IntakeEntry
  /\ history[2].role = "STRATEGY"
  /\ history[9].role = "GreenHillGPT"

\* C24: target_agents is fixed once digital_twin has run: no agent node,
\* neither the green_hill node nor the finalize node changes its entries or
\* their order.
C24_QueueFixed ==
  [][(pc \in AgentNodes \cup {"finalize"}) => (target_agents' = target_agents)]_vars

C24_Witness ==
  /\ Terminated
  /\ request.target_agents = <<"MARKET_INTEL", "STRATEGY">>
  /\ request.target_agent = None
  /\ target_agents = <<"MARKET_INTEL", "STRATEGY">>
  /\ trace = <<"intake", "digital_twin", "market", "strategy", "finalize">>

\* the node that owns an output field
OwnerOf(f) ==
  IF f = "green_hill_response" THEN "green_hill"
  ELSE CHOOSE n \in AnalyticNodes : FieldOfNode(n) = f

\* C25 (as claimed): in every run, caller-supplied target_agents included,
\* each per-agent output field is written at most once, and only by the node
\* that owns it (every invocation of an agent node writes its field).
C25_WriteOnce ==
  \A f \in OutputFields :
    /\ Count(trace, OwnerOf(f)) <= 1
    /\ outputs[f] # NoneDict => Contains(trace, OwnerOf(f))

CallPattern ==
  <<"start", "query_call", "query_return", "llm_call", "llm_return", "write">>

\* the events of the invocation that event i belongs to start at this index
InvocationStart(i) == i - ((i - 1) % 6)

\* C26: within one request the nodes run one at a time: the events of an
\* agent invocation are its start, its index query and the query's return,
\* its generation call and that call's return, and its write, in this order
\* with no event of another node in between; while an agent is inside its
\* body it is the node entered last; and an agent is entered only after the
\* agent before it has written its output and set the cursor that selects
\* the entered node.
C26_Sequential ==
  /\ \A i \in 1..Len(calls) :
       /\ calls[i].kind = CallPattern[i - InvocationStart(i) + 1]
       /\ calls[i].node = calls[InvocationStart(i)].node
  /\ at # 0 =>
       /\ pc \in AnalyticNodes
       /\ trace[Len(trace)] = pc
       /\ calls[Len(calls)].node = pc
       /\ calls[Len(calls)].kind = CallPattern[at]
  /\ (at = 0 /\ calls # <<>>) =>
       LET last == calls[Len(calls)]
       IN /\ last.kind = "write"
          /\ outputs[FieldOfNode(last.node)] # NoneDict
          /\ current_agent = AgentOfNode(last.node)
          /\ (pc \in AnalyticNodes /\ ~Contains(trace, "green_hill")) =>
               pc = RouteOf(finalize, next_agent)
  /\ Len(SelectSeq(calls, LAMBDA c : c.kind = "start"))
       = Len(SelectSeq(trace, LAMBDA n : n \in AnalyticNodes))

C26_Witness ==
  /\ Terminated
  /\ Len(calls) = 12
  /\ calls[1] = [node |-> "market", kind |-> "start"]
  /\ calls[6] = [node |-> "market", kind |-> "write"]
  /\ calls[7] = [node |-> "strategy", kind |-> "start"]
  /\ calls[12] = [node |-> "strategy", kind |-> "write"]
  /\ trace = <<"intake", "digital_twin", "market", "strategy", "finalize">>

\* the agent queue a request gets, from the request's own fields
QueueOf(req) ==
  LET stype == Lower(OrElse(req.source_type, "public"))
      listed == IF req.target_agents # <<>> THEN req.target_agents
                ELSE IF stype = "web_source" THEN <<"MARKET", "RISK">>
                ELSE IF stype = "ocs_feed" THEN <<"OPERATIONS", "COMPLIANCE">>
                ELSE <<>>
      direct == IF req.target_agent # "None" /\ ~Contains(listed, req.target_agent)
                THEN Append(listed, req.target_agent)
                ELSE listed
  IN IF direct # <<>> THEN direct ELSE classify_request(req)

\* the agent nodes of the run over queue
RunOver(queue) ==
  IF queue = <<>> THEN <<>> ELSE NodesFrom(queue, queue[1], MaxSteps - 2)

\* C27: whatever another request does to the shared document store while
\* this request runs, the nodes this request visits, its target_agents, its
\* finalize flag and the output fields it populates are those its own input
\* determines.
C27_RequestsIndependent ==
  /\ QuestionAbsent =>
       /\ AgentsRun = <<>>
       /\ Populated = {}
       /\ Contains(trace, "digital_twin") => Terminated /\ finalize = TRUE
  /\ QueueFixed =>
       /\ target_agents = QueueOf(request)
       /\ IsPrefix(AgentsRun, RunOver(QueueOf(request)))
       /\ Populated = {OwnerField \in OutputFields :
                         Contains(AgentsRun, OwnerOf(OwnerField))}
       /\ Terminated => AgentsRun = RunOver(QueueOf(request)) /\ finalize = TRUE
       /\ (finalize = TRUE) <=>
            \/ QueueOf(request) = <<>>
            \/ Contains(trace, "green_hill")
            \/ Contains(trace, "finalize")

\* the store changed between two agents of the run: the index was not
\* available to the first and returned documents to the second
C27_Witness ==
  /\ Terminated
  /\ trace = <<"intake", "digital_twin", "market", "strategy", "finalize">>
  /\ outputs["market_output"].context_used = 1
  /\ outputs["strategy_output"].context_used = MaxDocs
  /\ context.retrieved_docs = <<"No vector store available">>

\* C28 (as claimed): context_used in an agent's output record is the number
\* of documents the agent's index query returned: 0 when the index returns
\* no document, n when it returns n.  (Stated for a working index, before
\* the run's own archive step adds to it.)
C28_ContextUsedCounts ==
  (env.vectordb # "None" /\ ~env.raises /\ side_effects.archive_calls = 0) =>
    \A f \in Populated \ {"green_hill_response"} :
      outputs[f].context_used = env.ndocs

\* ---------------------------------------------------------------- C29
SevenAgents ==
  <<"strategy", "finance", "operations", "market", "risk", "compliance",
    "innovation">>
SevenFields ==
  {"strategy_output", "finance_output", "operations_output", "market_output",
   "risk_output", "compliance_output", "innovation_output"}
HasQuestion == request.question \notin {None, ""}
DirectTarget == orchestration_mode = "direct" /\ request.target_agent # None
Orchestrated == HasQuestion /\ ~DirectTarget

\* what a finished orchestrated run of the legacy graph looks like
LegacyChainAtEnd ==
  (Terminated /\ Orchestrated) =>
    /\ trace[Len(trace)] = "innovation"
    /\ finalize = TRUE
    /\ final_answer # None
    /\ final_answer[1] = "# Green Hill Canarias Digital Twin Analysis"
    /\ (request.source_type = None) =>
         /\ trace = <<"digital_twin">> \o SevenAgents
         /\ \A f \in SevenFields : outputs[f] # NoneDict

\* C29 as stated: in the legacy graph a request with a question and no
\* source_type or direct target runs strategy, finance, operations, market,
\* risk, compliance, innovation in this order, fills the seven output fields
\* and terminates with finalize = True and a final_answer; from any
\* role-selected first hop the run ends at innovation; and innovation is the
\* only node of the graph that sets finalize.
C29_LegacyChain_Original ==
  /\ []LegacyChainAtEnd
  /\ <>Terminated
  /\ [][(~finalize /\ finalize') => (pc = "innovation")]_vars

\* C29 amended: as above, but innovation is the only node that sets
\* finalize for a request that has a question and no direct target;
\* digital_twin finalizes a request without a question and green_hill
\* finalizes a request that is routed to it directly.
C29_LegacyChain ==
  /\ []LegacyChainAtEnd
  /\ <>Terminated
  /\ [][(Orchestrated /\ ~finalize /\ finalize') => (pc = "innovation")]_vars

C29_Witness ==
  /\ Terminated
  /\ Orchestrated
  /\ request.source_type = None
  /\ trace = <<"digital_twin">> \o SevenAgents
  /\ finalize = TRUE

\* ---------------------------------------------------------------- C30
Canon(a) == IF a = "MARKET_INTEL" THEN "MARKET" ELSE a
PositionsOf(list, a) == {i \in 1..Len(list) : Canon(list[i]) = Canon(a)}
FirstPosition(list, a) ==
  CHOOSE i \in PositionsOf(list, a) : \A j \in PositionsOf(list, a) : i <= j

\* C30: _next_from_targets(state, current) returns the entry of
\* target_agents that follows the (first) position of current, market_intel
\* counting as market on both sides; it returns None when that position is
\* the last one, when current is not in the list and when the list is empty;
\* and it leaves every field of the state as it was.
C30_NextFromTargets ==
  (pc = "lookup") =>
    /\ State = request
    /\ \A k \in 1..Len(calls) :
         LET list == request.target_agents
             current == calls[k].current
         IN IF list = <<>> \/ PositionsOf(list, current) = {}
            THEN calls[k].result = "None"
            ELSE IF FirstPosition(list, current) = Len(list)
                 THEN calls[k].result = "None"
                 ELSE calls[k].result = list[FirstPosition(list, current) + 1]

\* a lookup by the alias that finds the canonical entry mid-list
C30_Witness ==
  /\ pc = "lookup"
  /\ Len(request.target_agents) = 3
  /\ request.target_agents[2] = "MARKET"
  /\ request.target_agents[1] # "MARKET_INTEL"
  /\ \E k \in 1..Len(calls) :
       /\ calls[k].current = "MARKET_INTEL"
       /\ calls[k].result = request.target_agents[3]

\* ---------------------------------------------------------------- C31
\* C31 (as claimed): green_hill finalizes the run itself only when nothing
\* is queued after it in target_agents; when another agent is queued after
\* green_hill, that agent is dispatched next and green_hill leaves finalize
\* unset.
C31_GreenHillYieldsToQueue ==
  [][(pc = "green_hill" /\ trace' # trace) =>
       (LET queued == EntryAfter(target_agents, "GREEN_HILL")
        IN IF queued = "None"
           THEN finalize' = TRUE
           ELSE /\ finalize' = FALSE
                /\ pc' = NodeTable[queued])]_vars

\* ---------------------------------------------------------------- C32
PayloadOnly == request.payload_ref \notin {"None", ""} /\ QuestionAbsent

\* C32 (as claimed): for a request with a payload_ref and no question,
\* intake queues innovation and operations, digital_twin routes to them, and
\* by the end of the run both agents have run.
C32_PayloadRunsAgents ==
  PayloadOnly =>
    /\ (pc # "intake") =>
         /\ Contains(target_agents, "INNOVATION")
         /\ Contains(target_agents, "OPERATIONS")
    /\ Terminated =>
         /\ Contains(trace, "innovation")
         /\ Contains(trace, "operations")

\* ---------------------------------------------------------------- C33
FullWorkflow ==
  <<"strategy", "operations", "finance", "market_intel", "risk",
    "compliance", "innovation", "finalize">>
EdgeMapKeys ==
  [n \in {"strategy", "operations", "finance", "market_intel", "risk",
          "compliance", "innovation"} |->
     {"finalize", "__end__"} \cup
       (CASE n = "strategy" -> {"operations"}
          [] n = "operations" -> {"finance"}
          [] n = "finance" -> {"market_intel"}
          [] n = "market_intel" -> {"risk"}
          [] n = "risk" -> {"compliance"}
          [] n = "compliance" -> {"innovation"}
          [] n = "innovation" -> {})]
AsRunQuerySends == ~QuestionAbsent /\ request.target_agents = <<>>

\* C33 (as claimed): in the app/main.py graph a request with a question, as
\* run_query builds it, runs strategy, operations, finance, market_intel,
\* risk, compliance, innovation once each in this order and then finalize,
\* and what router_logic returns after each node is a key of that node's
\* conditional-edge map.
C33_FullWorkflow ==
  AsRunQuerySends =>
    /\ Terminated => trace = FullWorkflow
    /\ \A i \in 1..Len(routed) : routed[i] \in EdgeMapKeys[trace[i]]

\* ---------------------------------------------------------------- C34
\* what an agent node must leave alone: every output field but its own,
\* the queue, the request fields, context, errors and the two final fields
FrameOfAgent(own) ==
  /\ \A f \in OutputFields \ {own} : outputs'[f] = outputs[f]
  /\ target_agents' = target_agents
  /\ question' = question
  /\ metadata' = metadata
  /\ context' = context
  /\ errors' = errors
  /\ finalize' = finalize
  /\ final_answer' = final_answer

QueueAfterIntake(req) ==
  LET stype == IF req.source_type \in {"None", ""} THEN "public"
               ELSE req.source_type
      add(list, a) == IF Contains(list, a) THEN list ELSE Append(list, a)
  IN IF req.payload_ref \notin {"None", ""} /\ req.question \in {"None", ""}
       THEN add(add(req.target_agents, "INNOVATION"), "OPERATIONS")
     ELSE IF req.target_agents # <<>> THEN req.target_agents
     ELSE IF stype = "web_source" THEN <<"MARKET", "RISK">>
     ELSE IF stype = "ocs_feed" THEN <<"OPERATIONS", "COMPLIANCE">>
     ELSE <<>>

C36_ArchiveAtMostOnce ==
  /\ side_effects.archive_calls \in {0, 1}
  /\ (side_effects.archive_calls = 1) =>
       /\ Terminated
       /\ trace[Len(trace)] \in {"green_hill", "finalize"}
       /\ Count(trace, "green_hill") + Count(trace, "finalize") = 1
       /\ side_effects.archive_setting = "on"
  /\ (QuestionAbsent \/ EmptyClassificationPath) =>
       side_effects.archive_calls = 0
  /\ (Terminated /\ side_effects.archive_setting = "on") =>
       side_effects.archive_calls = 1

C36_Witness ==
  /\ Terminated
  /\ side_effects.archive_calls = 1
  /\ trace[Len(trace)] = "green_hill"
  /\ Len(AgentsRun) >= 2

\* ---------------------------------------------------------------- C37
\* the source_type table, written out string by string
RoleList(source) ==
  IF source \in {"master", "MASTER", "Master"} THEN MasterList
  ELSE IF source \in {"shareholder", "investor", "INVESTOR"}
    THEN <<"STRATEGY", "FINANCE", "MARKET", "RISK", "GREEN_HILL">>
  ELSE IF source \in {"supplier", "provider", "ocs_feed"}
    THEN <<"OPERATIONS", "COMPLIANCE">>
  ELSE IF source \in {"public", "Public", "", "None"}
    THEN <<"MARKET", "STRATEGY">>
  ELSE IF source = "web_source" THEN <<"MARKET", "RISK">>
  ELSE <<>>

\* a hint in capital letters and the same hint in small letters
SmallLetters(md) ==
  [md EXCEPT
     !.domain = IF @ = "Media" THEN "media"
                ELSE IF @ = "COMPLIANCE" THEN "compliance" ELSE @,
     !.subdomain = IF @ = "QMS Playbook" THEN "qms playbook" ELSE @]

\* C37: a domain hint that matches no fast path (domain compliance with
\* another subdomain included) gives the list of the source_type table, the
\* same as empty metadata would; and domain, subdomain and source_type are
\* matched without regard to letter case.
C37_FallThrough ==
  \A i \in 1..Len(classified) :
    /\ ~MatchesHint(request.metadata) =>
         /\ classified[i] = RoleList(request.source_type)
         /\ classified[i] = classify_request([request EXCEPT !.metadata = NoHints])
    /\ classified[i] = classify_request(
                         [request EXCEPT !.metadata = SmallLetters(@)])
    /\ MatchesHint(request.metadata) => classified[i] = HintList(request.metadata)
       \/ request.metadata.domain = "strategic_plan"

C37_Witness ==
  /\ Len(classified) >= 1
  /\ request.metadata = Meta("COMPLIANCE", "regulatory", "None", "None")
  /\ request.source_type = "INVESTOR"
  /\ classified[1] = <<"STRATEGY", "FINANCE", "MARKET", "RISK", "GREEN_HILL">>

====
